---- MODULE Spec2Model ----
(***************************************************************************)
(* Model of the income-statement query service of vercel_app.py: the       *)
(* filter engine (filter_income), the sort engine (sort_income), the       *)
(* /filter-sort-income and /fetch-income handlers and the single shared    *)
(* current_income slot they use.                                           *)
(*                                                                         *)
(* Python values are tagged tuples, strings are sequences of characters,   *)
(* a dict is the sequence of its (key, value) items in insertion order and *)
(* a record of the income statement is a function from field names to      *)
(* values whose domain is the set of fields the record carries.            *)
(***************************************************************************)
EXTENDS Integers, Sequences, FiniteSets, TLC

VARIABLES current_income, pc, req, resp, args, ret

vars == <<current_income, pc, req, resp, args, ret>>

----------------------------------------------------------------------------
(* Python values *)

IntV(n) == <<"int", n>>
StrV(s) == <<"str", s>>
InfV == <<"float", "inf">>
NoneV == <<"None">>
ListV(a, b) == <<"list", <<a, b>>>>

isinstance_str(v) == v[1] = "str"

\* field names and suffixes, as strings of characters
revenue == <<"r", "e", "v", "e", "n", "u", "e">>
date == <<"d", "a", "t", "e">>
eps == <<"e", "p", "s">>
suffix_min == <<"_", "m", "i", "n">>
suffix_max == <<"_", "m", "a", "x">>

\* the default of the date filter, "0000-00-00"
default_date == <<"0", "0", "0", "0", "-", "0", "0", "-", "0", "0">>

Min2(a, b) == IF a <= b THEN a ELSE b

\* s.endswith(suffix)
endswith(s, suffix) ==
    /\ Len(s) >= Len(suffix)
    /\ SubSeq(s, Len(s) - Len(suffix) + 1, Len(s)) = suffix

\* s[:-n]
drop_last(s, n) == SubSeq(s, 1, Len(s) - n)

\* s[:n]
prefix(s, n) == SubSeq(s, 1, Min2(n, Len(s)))

digit(c) ==
    CASE c = "0" -> 0 [] c = "1" -> 1 [] c = "2" -> 2 [] c = "3" -> 3
      [] c = "4" -> 4 [] c = "5" -> 5 [] c = "6" -> 6 [] c = "7" -> 7
      [] c = "8" -> 8 [] c = "9" -> 9

\* int(s) of a non-empty string of decimal digits
RECURSIVE int(_)
int(s) ==
    IF Len(s) = 1 THEN digit(s[1])
    ELSE 10 * int(SubSeq(s, 1, Len(s) - 1)) + digit(s[Len(s)])

\* a <= b on Python numbers: ints and float('inf')
le(a, b) ==
    IF b[1] = "float" THEN TRUE
    ELSE IF a[1] = "float" THEN FALSE
    ELSE a[2] <= b[2]

\* a < b on Python numbers
lt(a, b) == ~le(b, a)

\* record.get(field, default)
get(record, field, default) ==
    IF field \in DOMAIN record THEN record[field] ELSE default

\* d.get(key, float('inf')): a missing bound read as unbounded
dict_get_unbounded(items, key) ==
    IF \E i \in 1..Len(items) : items[i][1] = key
    THEN items[CHOOSE i \in 1..Len(items) : items[i][1] = key][2]
    ELSE InfV

\* d.get(key) on a dict given as its sequence of items: None when absent
dict_get(items, key) ==
    IF \E i \in 1..Len(items) : items[i][1] = key
    THEN items[CHOOSE i \in 1..Len(items) : items[i][1] = key][2]
    ELSE NoneV

Reverse(s) == [i \in 1..Len(s) |-> s[Len(s) + 1 - i]]

----------------------------------------------------------------------------
(* Filter engine *)

\* the date comprehension: min_year <= int(record.get("date", "0000-00-00")[:4]) <= max_year
date_in_range(record, base_field, min_year, max_year) ==
    LET year == IntV(int(prefix(get(record, base_field, StrV(default_date))[2], 4)))
    IN le(min_year, year) /\ le(year, max_year)

\* the numeric comprehension with an exclusive upper bound
value_in_range_exclusive(record, base_field, min_value, max_value) ==
    LET v == get(record, base_field, InfV)
    IN le(min_value, v) /\ lt(v, max_value)

\* the numeric comprehension with record.get(base_field, 0)
value_in_range_default_zero(record, base_field, min_value, max_value) ==
    LET v == get(record, base_field, IntV(0))
    IN le(min_value, v) /\ le(v, max_value)

\* the numeric comprehension: min_value <= record.get(base_field, float('inf')) <= max_value
value_in_range(record, base_field, min_value, max_value) ==
    LET v == get(record, base_field, InfV)
    IN le(min_value, v) /\ le(v, max_value)

\* one pass of the loop over filter_fields.items(), from item i on
RECURSIVE filter_loop(_, _, _)
filter_loop(filtered_data, filter_fields, i) ==
    IF i > Len(filter_fields) THEN filtered_data
    ELSE
      LET field == filter_fields[i][1]
          value == filter_fields[i][2]
      IN IF endswith(field, suffix_min)
         THEN LET base_field == drop_last(field, 4)
                  min_value == value
                  max_value == dict_get(filter_fields, base_field \o suffix_max)
                  KeepDate(record) == date_in_range(record, base_field, min_value, max_value)
                  KeepValue(record) == value_in_range(record, base_field, min_value, max_value)
              IN IF max_value # NoneV
                 THEN IF base_field = date
                      THEN filter_loop(SelectSeq(filtered_data, KeepDate), filter_fields, i + 1)
                      ELSE filter_loop(SelectSeq(filtered_data, KeepValue), filter_fields, i + 1)
                 ELSE filter_loop(filtered_data, filter_fields, i + 1)
         ELSE filter_loop(filtered_data, filter_fields, i + 1)

\* the slice data[1:]
copy_from_second(data) == SubSeq(data, 2, Len(data))

\* the copy data[:] that the loop starts from
copy(data) == data

filter_income(data, filter_fields) == filter_loop(copy(data), filter_fields, 1)

----------------------------------------------------------------------------
(* Sort engine *)

NoExc == <<>>
ValueError(field) ==
    <<"ValueError", <<"Invalid field '", field, "'. Please provide a valid field name.">>>>
KeyError(field) == <<"KeyError", <<"'", field, "'">>>>

Return(value) == [raised |-> NoExc, value |-> value]
Raise(exc) == [raised |-> exc, value |-> <<>>]

\* a key lambda that reads every digit of the date, not the year alone
sort_key_full_date(x, field) ==
    IF field = date /\ isinstance_str(x[field])
    THEN LET IsDigit(ch) == ch # "-"
         IN IntV(int(SelectSeq(x[field][2], IsDigit)))
    ELSE x[field]

\* the key lambda of sorted()
sort_key(x, field) ==
    IF field = date /\ isinstance_str(x[field])
    THEN IntV(int(prefix(x[field][2], 4)))
    ELSE x[field]

\* x placed behind every element of the sorted sequence s whose key is not greater
RECURSIVE insert(_, _, _)
insert(s, x, field) ==
    IF s = <<>> THEN <<x>>
    ELSE IF lt(sort_key(x, field), sort_key(Head(s), field))
         THEN <<x>> \o s
         ELSE <<Head(s)>> \o insert(Tail(s), x, field)

\* a stable ascending sort by key
RECURSIVE stable_sort(_, _)
stable_sort(s, field) ==
    IF s = <<>> THEN <<>>
    ELSE insert(stable_sort(SubSeq(s, 1, Len(s) - 1), field), s[Len(s)], field)

\* a reverse sort that sorts ascending and reverses the outcome
sorted_then_reversed(data, field, reverse) ==
    IF reverse
    THEN Reverse(stable_sort(data, field))
    ELSE stable_sort(data, field)

\* sorted(data, key=..., reverse=...): a reverse sort reverses the list, sorts it
\* stably and reverses the outcome, so equal keys keep their input order
sorted(data, field, reverse) ==
    IF reverse
    THEN Reverse(stable_sort(Reverse(data), field))
    ELSE stable_sort(data, field)

\* a sort that returns the data as they are when the first record lacks the field
sort_income_silent(data, field, ascending) ==
    IF data = <<>> THEN Return(<<>>)
    ELSE IF field \notin DOMAIN data[1] THEN Return(data)
    ELSE IF \E i \in 1..Len(data) : field \notin DOMAIN data[i] THEN Raise(KeyError(field))
    ELSE Return(sorted(data, field, ~ascending))

sort_income(data, field, ascending) ==
    IF data = <<>> THEN Return(<<>>)
    ELSE IF field \notin DOMAIN data[1] THEN Raise(ValueError(field))
    ELSE IF \E i \in 1..Len(data) : field \notin DOMAIN data[i] THEN Raise(KeyError(field))
    ELSE Return(sorted(data, field, ~ascending))

----------------------------------------------------------------------------
(* HTTP handlers *)

JList(data) == <<"list", data>>
JDict(items) == <<"dict", items>>
Response(status_code, json) == [status_code |-> status_code, json |-> json]
NoResponse == Response(0, JList(<<>>))

\* the query argument of a request: absent or empty, text that is no JSON, or
\* the text of a JSON object, given as the dict json.loads makes of it
NoQuery == <<"absent">>
Malformed == <<"malformed">>
Json(params_dict) == <<"json", params_dict>>

\* params_dict.get(key, default), params_dict a function over the keys it holds
params_get(params_dict, key, default) ==
    IF key \in DOMAIN params_dict THEN params_dict[key] ELSE default

\* the truth value of sort_field: None and the empty string are false
truthy(v) == v[1] = "str" /\ v[2] # <<>>

\* str(e)
str(exc) == exc[2]

JSONDecodeError == <<"JSONDecodeError", <<"Expecting value: line 1 column 1 (char 0)">>>>

\* what the except clause of filter_sort_income returns
error_payload(exc) ==
    Response(400, JDict(<< <<"status", "error">>, <<"message", str(exc)>> >>))

\* a try block that sorts the dataset and filters the sorted records
filter_sort_sort_first(income, params_dict) ==
    LET sort_field == params_get(params_dict, "sort_field", NoneV)
        ascending == params_get(params_dict, "ascending", TRUE)
        filter_fields == params_get(params_dict, "fields", <<>>)
        sorted_data == IF truthy(sort_field)
                       THEN sort_income(income, sort_field[2], ascending)
                       ELSE Return(income)
    IN IF sorted_data.raised # NoExc
       THEN sorted_data
       ELSE Return(filter_income(sorted_data.value, filter_fields))

\* the try block of filter_sort_income on the parsed parameters
filter_sort(income, params_dict) ==
    LET sort_field == params_get(params_dict, "sort_field", NoneV)
        ascending == params_get(params_dict, "ascending", TRUE)
        filter_fields == params_get(params_dict, "fields", <<>>)
        filtered_data == filter_income(income, filter_fields)
    IN IF truthy(sort_field)
       THEN sort_income(filtered_data, sort_field[2], ascending)
       ELSE Return(filtered_data)

\* the /filter-sort-income handler: the response to a query over the slot's content
filter_sort_income(income, query) ==
    IF query = NoQuery
    THEN Response(400, JDict(<< <<"error", "Params required">> >>))
    ELSE IF query = Malformed THEN error_payload(JSONDecodeError)
    ELSE LET out == filter_sort(income, query[2])
         IN IF out.raised # NoExc
            THEN error_payload(out.raised)
            ELSE Response(200, JList(out.value))

Callers == {"a", "b"}

\* what requests.get gives: an exception, or a response with a status and a body
ConnectionError == <<"exception">>
Upstream(status_code, json) == <<"response", status_code, json>>

\* a fetch that assigns a local current_income: the slot keeps its content
FetchIncome_local(c, symbol, upstream) ==
    /\ pc[c] = "fetch"
    /\ pc' = [pc EXCEPT ![c] = "query"]
    /\ req' = [req EXCEPT ![c].symbol = symbol]
    /\ IF symbol = <<>>
       THEN resp' = [resp EXCEPT ![c].fetch =
                        Response(400, JDict(<< <<"error", "Symbol is required">> >>))]
       ELSE IF upstream = ConnectionError
       THEN resp' = [resp EXCEPT ![c].fetch =
                        Response(500, JDict(<< <<"error", "Internal server error">> >>))]
       ELSE IF upstream[2] = 200
       THEN resp' = [resp EXCEPT ![c].fetch = Response(200, JList(upstream[3]))]
       ELSE resp' = [resp EXCEPT ![c].fetch =
                        Response(404, JDict(<< <<"error", "Failed to fetch income statement">> >>))]
    /\ UNCHANGED <<current_income, args, ret>>

\* GET /fetch-income?query=symbol by caller c
FetchIncome(c, symbol, upstream) ==
    /\ pc[c] = "fetch"
    /\ pc' = [pc EXCEPT ![c] = "query"]
    /\ req' = [req EXCEPT ![c].symbol = symbol]
    /\ IF symbol = <<>>
       THEN /\ resp' = [resp EXCEPT ![c].fetch =
                           Response(400, JDict(<< <<"error", "Symbol is required">> >>))]
            /\ UNCHANGED current_income
       ELSE IF upstream = ConnectionError
       THEN /\ resp' = [resp EXCEPT ![c].fetch =
                           Response(500, JDict(<< <<"error", "Internal server error">> >>))]
            /\ UNCHANGED current_income
       ELSE IF upstream[2] = 200
       THEN /\ current_income' = upstream[3]
            /\ resp' = [resp EXCEPT ![c].fetch = Response(200, JList(upstream[3]))]
       ELSE /\ resp' = [resp EXCEPT ![c].fetch =
                           Response(404, JDict(<< <<"error", "Failed to fetch income statement">> >>))]
            /\ UNCHANGED current_income
    /\ UNCHANGED <<args, ret>>

\* GET /filter-sort-income?query=... by caller c
FilterSortIncome(c, query) ==
    /\ pc[c] = "query"
    /\ pc' = [pc EXCEPT ![c] = "done"]
    /\ req' = [req EXCEPT ![c].query = query]
    /\ resp' = [resp EXCEPT ![c].query = filter_sort_income(current_income, query)]
    /\ UNCHANGED <<current_income, args, ret>>

----------------------------------------------------------------------------
(* Direct calls of the engines *)

NoArgs == [fn |-> "none", data |-> <<>>, filter_fields |-> <<>>, field |-> <<>>, ascending |-> TRUE]
NotCalled == [done |-> FALSE, raised |-> NoExc, value |-> <<>>]
Called(out) == [done |-> TRUE, raised |-> out.raised, value |-> out.value]

CallSortIncome ==
    /\ args.fn = "sort_income"
    /\ ~ret.done
    /\ ret' = Called(sort_income(args.data, args.field, args.ascending))
    /\ UNCHANGED <<current_income, pc, req, resp, args>>

CallFilterIncome ==
    /\ args.fn = "filter_income"
    /\ ~ret.done
    /\ ret' = Called(Return(filter_income(args.data, args.filter_fields)))
    /\ UNCHANGED <<current_income, pc, req, resp, args>>

----------------------------------------------------------------------------
(* Inputs *)

MaxLen == 2
MaxSortLen == 3
MaxFilterLen == 2
MaxFilters == 4

d2020a == <<"2", "0", "2", "0", "-", "0", "6", "-", "3", "0">>
d2020b == <<"2", "0", "2", "0", "-", "0", "1", "-", "0", "1">>
d2021 == <<"2", "0", "2", "1", "-", "0", "1", "-", "0", "1">>

Revenues == {1, 2}
Dates == {d2020a, d2021}
SortDates == {d2020a, d2020b, d2021}

\* the records over the fields revenue and date, each field present or not
RecordsOver(revs, dates) ==
    { [f \in S |-> IF f = revenue THEN IntV(n) ELSE StrV(d)] :
        S \in SUBSET {revenue, date}, n \in revs, d \in dates }

Records == RecordsOver(Revenues, Dates)
SortRecords == RecordsOver(Revenues, SortDates)

SeqsUpTo(S, n) == UNION { [1..k -> S] : k \in 0..n }

revenue_min == revenue \o suffix_min
revenue_max == revenue \o suffix_max
date_min == date \o suffix_min
date_max == date \o suffix_max

FilterEntries ==
    { <<revenue_min, IntV(1)>>, <<revenue_min, IntV(2)>>,
      <<revenue_max, IntV(2)>>, <<revenue_max, InfV>>,
      <<date_min, IntV(0)>>, <<date_min, IntV(2021)>>,
      <<date_max, IntV(2021)>> }

DistinctKeys(items) ==
    \A i, j \in 1..Len(items) : i # j => items[i][1] # items[j][1]

FilterDicts(n) == { s \in SeqsUpTo(FilterEntries, n) : DistinctKeys(s) }

IdleServer ==
    /\ current_income = <<>>
    /\ pc = [c \in Callers |-> "off"]
    /\ req = [c \in Callers |-> [symbol |-> <<>>, query |-> NoQuery]]
    /\ resp = [c \in Callers |-> [fetch |-> NoResponse, query |-> NoResponse]]

----------------------------------------------------------------------------
(* The sort engine on its own *)

InitSort ==
    /\ IdleServer
    /\ args \in { [fn |-> "sort_income", data |-> d, filter_fields |-> <<>>,
                   field |-> f, ascending |-> a] :
                  d \in SeqsUpTo(SortRecords, MaxSortLen),
                  f \in {revenue, date, eps}, a \in BOOLEAN }
    /\ ret = NotCalled

NextSort == CallSortIncome

SpecSort == InitSort /\ [][NextSort]_vars

(* The filter engine on its own *)

InitFilter ==
    /\ IdleServer
    /\ args \in { [fn |-> "filter_income", data |-> d, filter_fields |-> ff,
                   field |-> <<>>, ascending |-> TRUE] :
                  d \in SeqsUpTo(Records, MaxFilterLen),
                  ff \in FilterDicts(MaxFilters) }
    /\ ret = NotCalled

NextFilter == CallFilterIncome

SpecFilter == InitFilter /\ [][NextFilter]_vars

----------------------------------------------------------------------------
(* Properties of the sort engine, under SpecSort *)

\* the year a date string starts with
YearOf(chars) ==
    1000 * digit(chars[1]) + 100 * digit(chars[2]) + 10 * digit(chars[3]) + digit(chars[4])

\* the sort key the records are to be ordered by: the year for date, else the value
KeyOf(record, field) ==
    IF field = date THEN YearOf(record[field][2]) ELSE record[field][2]

AllCarry(data, field) == \A i \in 1..Len(data) : field \in DOMAIN data[i]

\* the records of s whose key is k, in the order s has them
WithKey(s, field, k) ==
    LET HasKey(record) == KeyOf(record, field) = k
    IN SelectSeq(s, HasKey)

KeysOf(s, field) == { KeyOf(s[i], field) : i \in 1..Len(s) }

\* out holds the records of data, and those of equal key in the order data has them
StablePermutation(data, out, field) ==
    /\ Len(out) = Len(data)
    /\ \A k \in KeysOf(data, field) \cup KeysOf(out, field) :
          WithKey(out, field, k) = WithKey(data, field, k)

NonDecreasing(s, field) ==
    \A i \in 1..(Len(s) - 1) : KeyOf(s[i], field) <= KeyOf(s[i + 1], field)

NonIncreasing(s, field) ==
    \A i \in 1..(Len(s) - 1) : KeyOf(s[i], field) >= KeyOf(s[i + 1], field)

DistinctKeysIn(data, field) ==
    \A i, j \in 1..Len(data) : i # j => KeyOf(data[i], field) # KeyOf(data[j], field)

SortedCall(ascending) ==
    /\ ret.done
    /\ args.fn = "sort_income"
    /\ args.ascending = ascending
    /\ args.data # <<>>
    /\ AllCarry(args.data, args.field)

\* C1 as stated: the descending sort of a non-empty dataset whose records all carry
\* the field is exactly the reverse of its ascending sort, ties included.
C1_DescendingIsReverseOfAscending ==
    SortedCall(FALSE) =>
        /\ ret.raised = NoExc
        /\ ret.value = Reverse(sort_income(args.data, args.field, TRUE).value)

\* C1 amended: the descending sort holds the records of the dataset by non-increasing
\* key with records of equal key in their input order (it is the reverse of the
\* ascending sort of the reversed dataset), and it is the reverse of the ascending
\* sort whenever no two records have the same key.
C1_DescendingKeepsTieOrder ==
    SortedCall(FALSE) =>
        /\ ret.raised = NoExc
        /\ StablePermutation(args.data, ret.value, args.field)
        /\ NonIncreasing(ret.value, args.field)
        /\ ret.value = Reverse(sort_income(Reverse(args.data), args.field, TRUE).value)
        /\ DistinctKeysIn(args.data, args.field) =>
              ret.value = Reverse(sort_income(args.data, args.field, TRUE).value)

\* a descending sort of two different records of equal key and one of another key
C1_Witness ==
    /\ SortedCall(FALSE)
    /\ Len(args.data) = 3
    /\ \E i, j \in 1..3 :
          /\ i < j
          /\ args.data[i] # args.data[j]
          /\ KeyOf(args.data[i], args.field) = KeyOf(args.data[j], args.field)
    /\ ~DistinctKeysIn(args.data, args.field)
    /\ Cardinality(KeysOf(args.data, args.field)) = 2
    /\ ret.value # args.data

\* C6: the ascending sort is a permutation of its input by non-decreasing key, the
\* key of date being the year of its first four characters and of any other field
\* the value, and records of equal key keep their input order.
C6_AscendingStable ==
    SortedCall(TRUE) =>
        /\ ret.raised = NoExc
        /\ StablePermutation(args.data, ret.value, args.field)
        /\ NonDecreasing(ret.value, args.field)

\* an ascending sort by date that moves a later year behind two dates of one year,
\* which stay in input order although the second is the earlier day
C6_Witness ==
    /\ SortedCall(TRUE)
    /\ args.field = date
    /\ args.data = << [f \in {date} |-> StrV(d2021)], [f \in {date} |-> StrV(d2020a)],
                      [f \in {date} |-> StrV(d2020b)] >>
    /\ ret.value = << [f \in {date} |-> StrV(d2020a)], [f \in {date} |-> StrV(d2020b)],
                      [f \in {date} |-> StrV(d2021)] >>

----------------------------------------------------------------------------
(* Properties of the filter engine, under SpecFilter *)

HasKey(items, key) == \E i \in 1..Len(items) : items[i][1] = key
ValueAt(items, key) == items[CHOOSE i \in 1..Len(items) : items[i][1] = key][2]

BaseFields == {revenue, date}

\* the fields of a filter set that have both bounds
Complete(items) ==
    { b \in BaseFields : HasKey(items, b \o suffix_min) /\ HasKey(items, b \o suffix_max) }

Finite(bound) == bound # InfV

\* the inclusive range test of one filter on one record: on the year for date, a
\* record without a date counting as year 0; on the value otherwise, a record
\* without the field counting as +infinity
InRange(record, b, lo, hi) ==
    IF b = date
    THEN LET year == IF date \in DOMAIN record THEN YearOf(record[date][2]) ELSE 0
         IN lo[2] <= year /\ year <= hi[2]
    ELSE IF b \in DOMAIN record
         THEN lo[2] <= record[b][2] /\ (~Finite(hi) \/ record[b][2] <= hi[2])
         ELSE ~Finite(hi)

SatisfiesAll(record, items) ==
    \A b \in Complete(items) :
       InRange(record, b, ValueAt(items, b \o suffix_min), ValueAt(items, b \o suffix_max))

Survivors(data, items) ==
    LET Keep(record) == SatisfiesAll(record, items)
    IN SelectSeq(data, Keep)

Orders(n) == Permutations(1..n)

Reordered(items, p) == [i \in 1..Len(items) |-> items[p[i]]]

FilterCall == ret.done /\ args.fn = "filter_income"

\* C3: the result is the subsequence of the dataset, in the dataset's order, of the
\* records that satisfy every filter with both bounds, whatever the order in which
\* the filters are declared.
C3_FilterIsConjunction ==
    FilterCall =>
        /\ ret.value = Survivors(args.data, args.filter_fields)
        /\ \A p \in Orders(Len(args.filter_fields)) :
              filter_income(args.data, Reordered(args.filter_fields, p)) = ret.value

\* two complete filters, the max bounds declared first; the first record passes the
\* revenue filter and fails the date filter, the second passes both
C3_Witness ==
    /\ FilterCall
    /\ Complete(args.filter_fields) = BaseFields
    /\ args.filter_fields[1][1] = date_max
    /\ args.filter_fields[2][1] = revenue_max
    /\ Len(args.data) = 2
    /\ revenue \in DOMAIN args.data[1]
    /\ InRange(args.data[1], revenue, ValueAt(args.filter_fields, revenue_min),
               ValueAt(args.filter_fields, revenue_max))
    /\ ret.value = <<args.data[2]>>
    /\ args.data[1] # args.data[2]

\* the keys of a filter set whose other bound is missing
Lone(items) ==
    { i \in 1..Len(items) :
        \/ /\ endswith(items[i][1], suffix_min)
           /\ ~HasKey(items, drop_last(items[i][1], 4) \o suffix_max)
        \/ /\ endswith(items[i][1], suffix_max)
           /\ ~HasKey(items, drop_last(items[i][1], 4) \o suffix_min) }

WithoutLone(items) ==
    LET keep == { i \in 1..Len(items) : i \notin Lone(items) }
        RECURSIVE pick(_)
        pick(i) == IF i > Len(items) THEN <<>>
                   ELSE IF i \in keep THEN <<items[i]>> \o pick(i + 1) ELSE pick(i + 1)
    IN pick(1)

\* C4: a bound whose other bound is missing changes nothing: the result is that of
\* the filter set without its lone bounds, and the dataset itself when every bound
\* is a lone one.
C4_LoneBoundIgnored ==
    FilterCall =>
        /\ ret.raised = NoExc
        /\ ret.value = filter_income(args.data, WithoutLone(args.filter_fields))
        /\ Complete(args.filter_fields) = {} => ret.value = args.data

\* a lone min of 2 on revenue and a lone max on date, over a record of revenue 1 and
\* a record without a date: both are returned
C4_Witness ==
    /\ FilterCall
    /\ args.filter_fields = << <<revenue_min, IntV(2)>>, <<date_max, IntV(2021)>> >>
    /\ Len(args.data) = 2
    /\ revenue \in DOMAIN args.data[1] /\ args.data[1][revenue] = IntV(1)
    /\ date \notin DOMAIN args.data[2]
    /\ ret.value = args.data

Lacking(data, b) == { i \in 1..Len(data) : b \notin DOMAIN data[i] }

C10_FilterIdempotent ==
    FilterCall => filter_income(ret.value, args.filter_fields) = ret.value

\* a call that drops one of two records
C10_Witness ==
    /\ FilterCall
    /\ Complete(args.filter_fields) # {}
    /\ Len(args.data) = 2
    /\ Len(ret.value) = 1

----------------------------------------------------------------------------
(* The service with one caller: a fetch, then a query *)

symbolA == <<"A", "A", "A">>
symbolB == <<"B", "B", "B">>

Upstreams ==
    {ConnectionError, Upstream(404, <<>>)}
        \cup { Upstream(200, d) : d \in SeqsUpTo(Records, MaxLen) }

\* the fields mappings a query carries: none, the documented name -> [min, max]
\* shape, and the name_min / name_max shape the filter engine reads
QueryFields ==
    { <<>>,
      << <<revenue, ListV(IntV(2), IntV(2))>> >>,
      << <<date, ListV(IntV(2021), IntV(2021))>>, <<revenue, ListV(IntV(1), IntV(1))>> >>,
      << <<revenue_min, IntV(2)>>, <<revenue_max, IntV(2)>> >>,
      << <<revenue_min, IntV(1)>>, <<revenue_max, InfV>> >>,
      << <<date_max, IntV(2021)>>, <<date_min, IntV(2021)>> >>,
      << <<revenue_min, IntV(2)>> >>,
      << <<revenue_min, IntV(1)>>, <<revenue_max, IntV(2)>>,
         <<date_min, IntV(0)>>, <<date_max, IntV(2021)>> >> }

SortFieldInputs == {StrV(<<>>), StrV(revenue), StrV(date), StrV(eps)}

ParamDicts ==
    { [k \in S |-> CASE k = "sort_field" -> sf [] k = "ascending" -> asc [] k = "fields" -> ff] :
        S \in SUBSET {"sort_field", "ascending", "fields"},
        sf \in SortFieldInputs, asc \in BOOLEAN, ff \in QueryFields }

Queries == {NoQuery, Malformed} \cup { Json(p) : p \in ParamDicts }

Init ==
    /\ current_income = <<>>
    /\ pc = [c \in Callers |-> IF c = "a" THEN "fetch" ELSE "off"]
    /\ req = [c \in Callers |-> [symbol |-> <<>>, query |-> NoQuery]]
    /\ resp = [c \in Callers |-> [fetch |-> NoResponse, query |-> NoResponse]]
    /\ args = NoArgs
    /\ ret = NotCalled

Next ==
    \E c \in Callers :
        \/ \E symbol \in {<<>>, symbolA}, upstream \in Upstreams :
              FetchIncome(c, symbol, upstream)
        \/ \E query \in Queries : FilterSortIncome(c, query)

Spec == Init /\ [][Next]_vars

(* The service with callers that each fetch their own company, then query *)

Company(c) == IF c = "a" THEN symbolA ELSE symbolB

\* the income statements the upstream API holds for the two companies
Remote(symbol) ==
    IF symbol = symbolA
    THEN << [f \in {revenue, date} |-> IF f = revenue THEN IntV(1) ELSE StrV(d2021)],
            [f \in {revenue, date} |-> IF f = revenue THEN IntV(2) ELSE StrV(d2020a)] >>
    ELSE << [f \in {revenue, date} |-> IF f = revenue THEN IntV(2) ELSE StrV(d2021)] >>

RaceUpstreams(symbol) ==
    {ConnectionError, Upstream(404, <<>>), Upstream(200, Remote(symbol))}

RaceQueries ==
    { Json(<<>>),
      Json([k \in {"sort_field"} |-> StrV(date)]),
      Json([k \in {"fields"} |-> << <<revenue_min, IntV(2)>>, <<revenue_max, IntV(2)>> >>]) }

InitRace ==
    /\ current_income = <<>>
    /\ pc \in { f \in [Callers -> {"fetch", "off"}] : \E c \in Callers : f[c] = "fetch" }
    /\ req = [c \in Callers |-> [symbol |-> <<>>, query |-> NoQuery]]
    /\ resp = [c \in Callers |-> [fetch |-> NoResponse, query |-> NoResponse]]
    /\ args = NoArgs
    /\ ret = NotCalled

NextRace ==
    \E c \in Callers :
        \/ \E upstream \in RaceUpstreams(Company(c)) : FetchIncome(c, Company(c), upstream)
        \/ \E query \in RaceQueries : FilterSortIncome(c, query)

SpecRace == InitRace /\ [][NextRace]_vars

----------------------------------------------------------------------------
(* Properties of the query handler, under Spec *)

\* caller c has its answer to a well-formed query
Answered(c) == pc[c] = "done" /\ req[c].query[1] = "json"

ParamsOf(c) == req[c].query[2]
FieldsOf(c) == IF "fields" \in DOMAIN ParamsOf(c) THEN ParamsOf(c)["fields"] ELSE <<>>
AscendingOf(c) == IF "ascending" \in DOMAIN ParamsOf(c) THEN ParamsOf(c)["ascending"] ELSE TRUE

\* the query names a field to sort by
Sorts(c) == "sort_field" \in DOMAIN ParamsOf(c) /\ ParamsOf(c)["sort_field"][2] # <<>>
SortFieldOf(c) == ParamsOf(c)["sort_field"][2]

\* every name -> [min, max] entry replaced by name_min -> min and name_max -> max
RECURSIVE Expand(_)
Expand(items) ==
    IF items = <<>> THEN <<>>
    ELSE LET key == Head(items)[1]
             value == Head(items)[2]
         IN IF value[1] = "list"
            THEN << <<key \o suffix_min, value[2][1]>>, <<key \o suffix_max, value[2][2]>> >>
                     \o Expand(Tail(items))
            ELSE <<Head(items)>> \o Expand(Tail(items))

HasListEntry(items) == \E i \in 1..Len(items) : items[i][2][1] = "list"

\* C2: a fields entry name -> [min, max] is expanded into name_min and name_max
\* before filtering, so an unsorted query returns exactly the records of the
\* current dataset within the range.
C2_FieldsEntryExpanded ==
    \A c \in Callers :
        (Answered(c) /\ HasListEntry(FieldsOf(c)) /\ ~Sorts(c)) =>
            resp[c].query =
                Response(200, JList(Survivors(current_income, Expand(FieldsOf(c)))))

\* C7: when the filtered sequence is not empty and its first record lacks the sort
\* field, the answer is an error payload whose message names the field, with status
\* 400, and holds no records.
C7_InvalidSortFieldIsError ==
    \A c \in Callers :
        (Answered(c) /\ Sorts(c)) =>
            LET survivors == Survivors(current_income, FieldsOf(c))
            IN (survivors # <<>> /\ SortFieldOf(c) \notin DOMAIN survivors[1]) =>
                  /\ resp[c].query.status_code = 400
                  /\ resp[c].query.json[1] = "dict"
                  /\ Len(resp[c].query.json[2]) = 2
                  /\ resp[c].query.json[2][1] = <<"status", "error">>
                  /\ resp[c].query.json[2][2][1] = "message"
                  /\ resp[c].query.json[2][2][2] = ValueError(SortFieldOf(c))[2]
                  /\ resp[c].query.json[2][2][2][2] = SortFieldOf(c)

\* a sort by date after a revenue filter whose first survivor has no date, while
\* the first record of the dataset has one
C7_Witness ==
    /\ Answered("a")
    /\ Sorts("a")
    /\ SortFieldOf("a") = date
    /\ Len(current_income) = 2
    /\ date \in DOMAIN current_income[1]
    /\ Survivors(current_income, FieldsOf("a")) = <<current_income[2]>>
    /\ date \notin DOMAIN current_income[2]
    /\ resp["a"].query.status_code = 400

\* C8: a query with a sort field is answered with the sort of the filtered dataset:
\* the field is looked up in the first surviving record, not in the first record of
\* the dataset, and when nothing survives the answer is the empty sequence whatever
\* the sort field.
C8_FilterThenSort ==
    \A c \in Callers :
        (Answered(c) /\ Sorts(c)) =>
            LET survivors == Survivors(current_income, FieldsOf(c))
                out == sort_income(filter_income(current_income, FieldsOf(c)),
                                   SortFieldOf(c), AscendingOf(c))
            IN /\ resp[c].query =
                     IF out.raised # NoExc THEN error_payload(out.raised)
                     ELSE Response(200, JList(out.value))
               /\ survivors = <<>> => resp[c].query = Response(200, JList(<<>>))
               /\ (survivors # <<>> /\ AllCarry(survivors, SortFieldOf(c))) =>
                     /\ resp[c].query.status_code = 200
                     /\ resp[c].query.json[1] = "list"
                     /\ StablePermutation(survivors, resp[c].query.json[2], SortFieldOf(c))
                     /\ IF AscendingOf(c)
                        THEN NonDecreasing(resp[c].query.json[2], SortFieldOf(c))
                        ELSE NonIncreasing(resp[c].query.json[2], SortFieldOf(c))

\* a sort by date that succeeds although the first record of the dataset has no
\* date, because the revenue filter removes that record
C8_Witness ==
    /\ Answered("a")
    /\ Sorts("a")
    /\ SortFieldOf("a") = date
    /\ Len(current_income) = 2
    /\ date \notin DOMAIN current_income[1]
    /\ Survivors(current_income, FieldsOf("a")) = <<current_income[2]>>
    /\ resp["a"].query = Response(200, JList(<<current_income[2]>>))

----------------------------------------------------------------------------
(* Properties of the shared slot, under SpecRace *)

Active == { c \in Callers : pc[c] # "off" }

\* C9: a caller that is alone, and whose fetch succeeded, gets its query answered
\* over the dataset of the company it fetched.
C9_SoloCallerSeesOwnCompany ==
    \A c \in Callers :
        (Active = {c} /\ pc[c] = "done" /\ resp[c].fetch.status_code = 200) =>
            /\ current_income = Remote(req[c].symbol)
            /\ resp[c].query = filter_sort_income(Remote(req[c].symbol), req[c].query)

\* C9, the race: with two callers, caller a fetched its company with success and
\* its query was answered over the dataset of caller b's company
C9_Witness ==
    /\ Active = Callers
    /\ pc["a"] = "done"
    /\ resp["a"].fetch = Response(200, JList(Remote(Company("a"))))
    /\ req["a"].symbol = Company("a")
    /\ resp["a"].query = filter_sort_income(Remote(Company("b")), req["a"].query)
    /\ resp["a"].query # filter_sort_income(Remote(Company("a")), req["a"].query)

====
